---- MODULE Spec2Model ----
(***************************************************************************)
(* Model of src/backend_aws_bedrock_rag/src/api/main.py: the POST          *)
(* /query_agents handler (query_agents), the remote invoker                *)
(* (_invoke_bedrock_agent with _get_bedrock_runtime_client) and the        *)
(* response normalizer that closes _invoke_bedrock_agent.                  *)
(*                                                                         *)
(* Text that the code strips (request fields) is a sequence of one-char    *)
(* strings, so that stripping is computed.  Python values that the code    *)
(* only tests and copies (remote responses, outputs, error texts) are      *)
(* records [t, s, d]: t the type ("none", "str", "dict"), s the text of a  *)
(* str, d the items of a dict.                                             *)
(*                                                                         *)
(* Requests are served one after the other: the handler keeps no state of  *)
(* its own between requests, the only thing two requests share is the      *)
(* source of uuid4 values.                                                 *)
(***************************************************************************)
EXTENDS Integers, Sequences, FiniteSets, TLC

VARIABLES
    pc,             \* position of the request being served
    nreq,           \* number of requests received so far
    rawReq,         \* the request body as sent by the caller
    payload,        \* the validated QueryAgentsRequest (fields stripped)
    status,         \* HTTP status of the answer, 0 while there is none
    response,       \* the QueryAgentsResponse returned, if any
    results,        \* query_agents: results
    i,              \* query_agents: position of the for loop (1-based)
    client,         \* _invoke_bedrock_agent: region of the client, <<>> if none
    rawResponse,    \* _invoke_bedrock_agent: response of client.invoke_agent
    invocations,    \* history: the calls of _invoke_bedrock_agent and how each ended
    clients,        \* history: regions of the clients built for this request
    calls,          \* history: the invoke_agent calls sent for this request
    uuidCount,      \* number of uuid4 values generated so far
    usedSessionIds, \* history: sessionIds sent by earlier requests
    raw,            \* normalizer alone: the raw response
    normalized      \* normalizer alone: its outcome

vars == <<pc, nreq, rawReq, payload, status, response, results, i, client,
          rawResponse, invocations, clients, calls, uuidCount, usedSessionIds,
          raw, normalized>>

-----------------------------------------------------------------------------
(* Bounds *)

MaxAgents == 3
MaxRequests == 2

-----------------------------------------------------------------------------
(* Python values *)

EmptyItems == [k \in {} |-> 0]

PyNone == [t |-> "none", s |-> "", d |-> EmptyItems]
PyStr(x) == [t |-> "str", s |-> x, d |-> EmptyItems]
PyDict(f) == [t |-> "dict", s |-> "", d |-> f]

IsDict(v) == v.t = "dict"

\* bool(v): None, "" and {} are false
Truthy(v) ==
    \/ v.t = "str" /\ v.s # ""
    \/ v.t = "dict" /\ DOMAIN v.d # {}

\* a or b
PyOr(a, b) == IF Truthy(a) THEN a ELSE b

\* k in dct
PyIn(k, dct) == k \in DOMAIN dct.d

\* dct.get(k)
PyGet(dct, k) == IF k \in DOMAIN dct.d THEN dct.d[k] ELSE PyNone

\* dct[k] = v
PySet(dct, k, v) ==
    PyDict([x \in (DOMAIN dct.d) \cup {k} |-> IF x = k THEN v ELSE dct.d[x]])

\* an exception: its class and the arguments it was raised with
Exc(cls, args) == [cls |-> cls, args |-> args]

\* str(e) of an exception raised with no argument or with one message
ExcStr(e) == IF Len(e.args) = 0 THEN "" ELSE e.args[1]

-----------------------------------------------------------------------------
(* Request schema: AgentInput, QueryAgentsRequest *)

Whitespace == {" ", "\t"}

RECURSIVE LStrip(_)
LStrip(s) ==
    IF s = <<>> THEN s
    ELSE IF Head(s) \in Whitespace THEN LStrip(Tail(s)) ELSE s

RECURSIVE RStrip(_)
RStrip(s) ==
    IF s = <<>> THEN s
    ELSE IF s[Len(s)] \in Whitespace THEN RStrip(SubSeq(s, 1, Len(s) - 1)) ELSE s

\* constr(strip_whitespace=True, ...): the value kept is the stripped one
Strip(s) == RStrip(LStrip(s))

min_length == 1

\* constr(strip_whitespace=True, min_length=1) accepts s
ConstrOk(s) == Len(Strip(s)) >= min_length

AgentInputOk(a) ==
    /\ ConstrOk(a.role)
    /\ ConstrOk(a.agent_id)
    /\ ConstrOk(a.alias_id)
    /\ ConstrOk(a.region)

AgentInput(a) ==
    [role |-> Strip(a.role), agent_id |-> Strip(a.agent_id),
     alias_id |-> Strip(a.alias_id), region |-> Strip(a.region)]

\* agents: List[AgentInput] carries no length constraint; query is a constr
QueryAgentsRequestOk(r) ==
    /\ \A k \in 1..Len(r.agents) : AgentInputOk(r.agents[k])
    /\ ConstrOk(r.query)

QueryAgentsRequest(r) ==
    [agents |-> [k \in 1..Len(r.agents) |-> AgentInput(r.agents[k])],
     query |-> Strip(r.query)]

NoRequest == [agents |-> <<>>, query |-> <<>>]

-----------------------------------------------------------------------------
(* Response normalizer: the closing part of _invoke_bedrock_agent *)

RecognizedKeys == {"sessionId", "invocationId", "contentType", "completion"}

\* for k in (...): if k in response: result[k] = response[k]
CopyRecognized(resp) ==
    PyDict([k \in RecognizedKeys \cap DOMAIN resp.d |-> resp.d[k]])

\* response["completion"].get("text") or response["completion"].get("content") or None
ExtractText(completion) ==
    PyOr(PyOr(PyGet(completion, "text"), PyGet(completion, "content")), PyNone)

\* the normalizer applied to every known key of a mapping, keeping all of it
NormalizeResponse_keepall(resp) ==
    LET result == PyDict(resp.d)
    IN  IF PyIn("completion", resp) /\ IsDict(resp.d["completion"])
        THEN LET text == ExtractText(resp.d["completion"])
             IN  IF text.t # "none" THEN PySet(result, "text", text) ELSE result
        ELSE result

\* the normalizer on a mapping
NormalizeResponse(resp) ==
    LET result == CopyRecognized(resp)
    IN  IF PyIn("completion", resp) /\ IsDict(resp.d["completion"])
        THEN LET text == ExtractText(resp.d["completion"])
             IN  IF text.t # "none" THEN PySet(result, "text", text) ELSE result
        ELSE result

\* "k in response" raises TypeError when response is no container
NormalizerRaises(resp) == ~IsDict(resp)

NotIterable == Exc("TypeError", <<"argument of type 'NoneType' is not iterable">>)

-----------------------------------------------------------------------------
(* What the remote side can do *)

\* _get_bedrock_runtime_client: boto3 cannot be imported
ClientErrors ==
    {Exc("RuntimeError",
         <<"boto3 is required to call AWS Bedrock. Please ensure boto3 is installed.">>)}

\* client.invoke_agent raises: with a message, or with none (str(e) = "")
InvokeErrors ==
    {Exc("ClientError", <<"AccessDeniedException">>), Exc("TimeoutError", <<>>)}

\* client.invoke_agent returns
Responses ==
    {PyNone,
     PyDict([k \in {"sessionId", "completion", "trace"} |->
                IF k = "completion" THEN PyDict([x \in {"text"} |-> PyStr("hello")])
                ELSE PyStr(k)])}

\* the classes above all derive from Exception
ExceptionClasses == {"RuntimeError", "ClientError", "TimeoutError", "TypeError"}

\* an except clause that names one class only
Catches_narrow(e) == e.cls = "RuntimeError"

\* except Exception as e
Catches(e) == e.cls \in ExceptionClasses

-----------------------------------------------------------------------------
(* Requests the caller can send *)

ValidAgents ==
    {[role |-> <<"r">>, agent_id |-> <<"a">>, alias_id |-> <<"x">>, region |-> <<"e">>],
     [role |-> <<" ", "s">>, agent_id |-> <<"b", " ">>, alias_id |-> <<"\t", "y">>,
      region |-> <<"w", " ">>]}

BlankAgents ==
    {[role |-> <<" ">>, agent_id |-> <<"a">>, alias_id |-> <<"x">>, region |-> <<"e">>],
     [role |-> <<"r">>, agent_id |-> <<>>, alias_id |-> <<"x">>, region |-> <<"e">>],
     [role |-> <<"r">>, agent_id |-> <<"a">>, alias_id |-> <<"\t", " ">>, region |-> <<"e">>],
     [role |-> <<"r">>, agent_id |-> <<"a">>, alias_id |-> <<"x">>, region |-> <<>>]}

RawAgents == ValidAgents \cup BlankAgents

RawQueries == {<<" ", "q", " ">>, <<" ">>, <<>>}

RawRequests ==
    [agents : UNION {[1..n -> RawAgents] : n \in 0..MaxAgents}, query : RawQueries]

-----------------------------------------------------------------------------
(* query_agents *)

status_code == 400
HTTP_OK == 200
HTTP_UNPROCESSABLE == 422
HTTP_SERVER_ERROR == 500

NoResponse == [present |-> FALSE, query |-> <<>>, results |-> <<>>]

\* "not payload.agents" never true
NoAgents_never(agents) == FALSE

\* not payload.agents
NoAgents(agents) == Len(agents) = 0

\* a loop that stops one short
HasNext_short(k, agents) == k < Len(agents)

\* for agent in payload.agents: there is an element at position k
HasNext(k, agents) == k <= Len(agents)

\* AgentResponse(...) of the try branch with two ids exchanged
SuccessResponse_swapped(agent, output) ==
    [role |-> agent.role, agent_id |-> agent.alias_id, alias_id |-> agent.agent_id,
     region |-> agent.region, success |-> TRUE, output |-> output, error |-> PyNone]

\* AgentResponse(...) of the try branch
SuccessResponse(agent, output) ==
    [role |-> agent.role, agent_id |-> agent.agent_id, alias_id |-> agent.alias_id,
     region |-> agent.region, success |-> TRUE, output |-> output, error |-> PyNone]

\* AgentResponse(...) of the except branch that also reports an output
FailureResponse_output(agent, e) ==
    [role |-> agent.role, agent_id |-> agent.agent_id, alias_id |-> agent.alias_id,
     region |-> agent.region, success |-> FALSE, output |-> PyDict(EmptyItems),
     error |-> PyStr(ExcStr(e))]

\* AgentResponse(...) of the except branch
FailureResponse(agent, e) ==
    [role |-> agent.role, agent_id |-> agent.agent_id, alias_id |-> agent.alias_id,
     region |-> agent.region, success |-> FALSE, output |-> PyNone,
     error |-> PyStr(ExcStr(e))]

\* one session id for every call
Uuid4_fixed(n) == 1

\* str(uuid.uuid4()): the value generated after n earlier ones, new each time
Uuid4(n) == n + 1

SessionIds(cs) == {cs[k].sessionId : k \in 1..Len(cs)}

Init ==
    /\ pc = "idle"
    /\ nreq = 0
    /\ rawReq = NoRequest
    /\ payload = NoRequest
    /\ status = 0
    /\ response = NoResponse
    /\ results = <<>>
    /\ i = 0
    /\ client = <<>>
    /\ rawResponse = PyNone
    /\ invocations = <<>>
    /\ clients = <<>>
    /\ calls = <<>>
    /\ uuidCount = 0
    /\ usedSessionIds = {}
    /\ raw = PyNone
    /\ normalized = PyNone

\* a request arrives
Receive ==
    /\ pc = "idle"
    /\ nreq < MaxRequests
    /\ \E r \in RawRequests : rawReq' = r
    /\ nreq' = nreq + 1
    /\ pc' = "validate"
    /\ UNCHANGED <<payload, status, response, results, i, client, rawResponse,
                   invocations, clients, calls, uuidCount, usedSessionIds,
                   raw, normalized>>

\* the answer has been sent: what the request held goes out of scope
Discard ==
    /\ pc = "done"
    /\ pc' = "idle"
    /\ rawReq' = NoRequest
    /\ payload' = NoRequest
    /\ status' = 0
    /\ response' = NoResponse
    /\ results' = <<>>
    /\ i' = 0
    /\ client' = <<>>
    /\ rawResponse' = PyNone
    /\ invocations' = <<>>
    /\ clients' = <<>>
    /\ calls' = <<>>
    /\ usedSessionIds' = usedSessionIds \cup SessionIds(calls)
    /\ UNCHANGED <<nreq, uuidCount, raw, normalized>>

\* the body is parsed into payload: QueryAgentsRequest; a body that fails the
\* schema never reaches query_agents and is answered by the framework
Validate ==
    /\ pc = "validate"
    /\ IF QueryAgentsRequestOk(rawReq)
       THEN /\ payload' = QueryAgentsRequest(rawReq)
            /\ pc' = "handler"
            /\ UNCHANGED status
       ELSE /\ status' = HTTP_UNPROCESSABLE
            /\ pc' = "done"
            /\ UNCHANGED payload
    /\ UNCHANGED <<nreq, rawReq, response, results, i, client, rawResponse,
                   invocations, clients, calls, uuidCount, usedSessionIds,
                   raw, normalized>>

\* query_agents up to the for loop
CheckAgents ==
    /\ pc = "handler"
    /\ IF NoAgents(payload.agents)
       THEN /\ status' = status_code
            /\ pc' = "done"
            /\ UNCHANGED i
       ELSE /\ i' = 1
            /\ pc' = IF HasNext(1, payload.agents) THEN "get_client" ELSE "return"
            /\ UNCHANGED status
    /\ results' = <<>>
    /\ UNCHANGED <<nreq, rawReq, payload, response, client, rawResponse,
                   invocations, clients, calls, uuidCount, usedSessionIds,
                   raw, normalized>>

\* the loop goes on to the next agent, or to the return statement
NextIteration ==
    /\ i' = i + 1
    /\ pc' = IF HasNext(i + 1, payload.agents) THEN "get_client" ELSE "return"
    /\ client' = <<>>
    /\ rawResponse' = PyNone

\* e is raised inside the try block of iteration i
Raised(e) ==
    IF Catches(e)
    THEN /\ results' = Append(results, FailureResponse(payload.agents[i], e))
         /\ NextIteration
         /\ UNCHANGED <<status, response>>
    ELSE /\ status' = HTTP_SERVER_ERROR
         /\ pc' = "done"
         /\ client' = <<>>
         /\ rawResponse' = PyNone
         /\ UNCHANGED <<results, i, response>>

\* the last entry of the invocation history, with its fate and response set
Settle(invs, fate, resp) ==
    [invs EXCEPT ![Len(invs)] = [pos |-> invs[Len(invs)].pos, fate |-> fate, resp |-> resp]]

\* _invoke_bedrock_agent is entered for agents[i]: the client is built
GetClient ==
    /\ pc = "get_client"
    /\ \/ /\ client' = payload.agents[i].region
          /\ clients' = Append(clients, payload.agents[i].region)
          /\ invocations' = Append(invocations,
                                   [pos |-> i, fate |-> "pending", resp |-> PyNone])
          /\ pc' = "invoke"
          /\ UNCHANGED <<results, i, status, response, rawResponse>>
       \/ /\ \E e \in ClientErrors : Raised(e)
          /\ invocations' = Append(invocations,
                                   [pos |-> i, fate |-> "raised", resp |-> PyNone])
          /\ UNCHANGED clients
    /\ UNCHANGED <<nreq, rawReq, payload, calls, uuidCount, usedSessionIds,
                   raw, normalized>>

\* the session id is generated and client.invoke_agent is called
InvokeAgent ==
    /\ pc = "invoke"
    /\ uuidCount' = uuidCount + 1
    /\ calls' = Append(calls,
                       [pos |-> i,
                        region |-> client,
                        agentId |-> payload.agents[i].agent_id,
                        agentAliasId |-> payload.agents[i].alias_id,
                        sessionId |-> Uuid4(uuidCount),
                        inputText |-> payload.query])
    /\ \/ \E r \in Responses :
             /\ rawResponse' = r
             /\ invocations' = Settle(invocations, "pending", r)
             /\ pc' = "normalize"
             /\ UNCHANGED <<results, i, status, response, client>>
       \/ /\ \E e \in InvokeErrors : Raised(e)
          /\ invocations' = Settle(invocations, "raised", PyNone)
    /\ UNCHANGED <<nreq, rawReq, payload, clients, usedSessionIds, raw, normalized>>

\* the response is normalized and returned; query_agents appends the result
Normalize ==
    /\ pc = "normalize"
    /\ IF NormalizerRaises(rawResponse)
       THEN /\ Raised(NotIterable)
            /\ invocations' = Settle(invocations, "raised", rawResponse)
       ELSE /\ results' = Append(results,
                                 SuccessResponse(payload.agents[i],
                                                 NormalizeResponse(rawResponse)))
            /\ invocations' = Settle(invocations, "returned", rawResponse)
            /\ NextIteration
            /\ UNCHANGED <<status, response>>
    /\ UNCHANGED <<nreq, rawReq, payload, clients, calls, uuidCount,
                   usedSessionIds, raw, normalized>>

\* return QueryAgentsResponse(query=payload.query, results=results)
Return ==
    /\ pc = "return"
    /\ status' = HTTP_OK
    /\ response' = [present |-> TRUE, query |-> payload.query, results |-> results]
    /\ pc' = "done"
    /\ UNCHANGED <<nreq, rawReq, payload, results, i, client, rawResponse,
                   invocations, clients, calls, uuidCount, usedSessionIds,
                   raw, normalized>>

Next ==
    \/ Receive
    \/ Validate
    \/ CheckAgents
    \/ GetClient
    \/ InvokeAgent
    \/ Normalize
    \/ Return
    \/ Discard

Spec == Init /\ [][Next]_vars

-----------------------------------------------------------------------------
(* The normalizer alone, on every raw response mapping of RawResponses *)

SimpleKeys == {"sessionId", "invocationId", "contentType", "trace", "text"}

TextValues == {PyNone, PyStr(""), PyStr("hello"), PyStr("hi")}

CompletionKeys == {"text", "content", "other"}

CompletionValues ==
    {PyNone, PyStr("chunk")}
    \cup {PyDict(f) : f \in UNION {[S -> TextValues] : S \in SUBSET CompletionKeys}}

RawResponses ==
    {PyDict([k \in S |-> PyStr(k)]) : S \in SUBSET SimpleKeys}
    \cup {PyDict([k \in S \cup {"completion"} |->
                     IF k = "completion" THEN c ELSE PyStr(k)]) :
             S \in SUBSET SimpleKeys, c \in CompletionValues}

InitNorm ==
    /\ pc = "idle"
    /\ nreq = 0
    /\ rawReq = NoRequest
    /\ payload = NoRequest
    /\ status = 0
    /\ response = NoResponse
    /\ results = <<>>
    /\ i = 0
    /\ client = <<>>
    /\ rawResponse = PyNone
    /\ invocations = <<>>
    /\ clients = <<>>
    /\ calls = <<>>
    /\ uuidCount = 0
    /\ usedSessionIds = {}
    /\ raw \in RawResponses
    /\ normalized = PyNone

\* the closing part of _invoke_bedrock_agent runs on raw
NormalizeRaw ==
    /\ normalized.t = "none"
    /\ ~NormalizerRaises(raw)
    /\ normalized' = NormalizeResponse(raw)
    /\ UNCHANGED <<raw, pc, nreq, rawReq, payload, status, response, results, i,
                   client, rawResponse, invocations, clients, calls, uuidCount,
                   usedSessionIds>>

NextNorm == NormalizeRaw

SpecNorm == InitNorm /\ [][NextNorm]_vars

-----------------------------------------------------------------------------
(* Properties *)

\* query_agents was entered with a validated payload
Entered == payload # NoRequest

N == Len(payload.agents)

\* s is empty or whitespace-only
IsBlank(s) == \A k \in 1..Len(s) : s[k] \in Whitespace

HasBlankField(r) ==
    \/ IsBlank(r.query)
    \/ \E k \in 1..Len(r.agents) :
          \/ IsBlank(r.agents[k].role)
          \/ IsBlank(r.agents[k].agent_id)
          \/ IsBlank(r.agents[k].alias_id)
          \/ IsBlank(r.agents[k].region)

Echoes(res, agent) ==
    /\ res.role = agent.role
    /\ res.agent_id = agent.agent_id
    /\ res.alias_id = agent.alias_id
    /\ res.region = agent.region

Answered == pc = "done"

\* C1: when query_agents has been entered with a non-empty agents list, then
\* whatever each remote call did the answer is an aggregate with one result per
\* agent, and result k echoes role, agent_id, alias_id and region of agent k.
C1_OrderedEcho ==
    (Answered /\ Entered /\ N > 0) =>
        /\ status = HTTP_OK
        /\ response.present
        /\ Len(response.results) = N
        /\ \A k \in 1..N : Echoes(response.results[k], payload.agents[k])

\* three agents, the first and the third the same descriptor, the second another
\* one, with a failure and a success among the remote calls
C1_Witness ==
    /\ Answered /\ Entered /\ N = 3 /\ status = HTTP_OK
    /\ payload.agents[1] = payload.agents[3]
    /\ payload.agents[1] # payload.agents[2]
    /\ rawReq.agents[2].agent_id # payload.agents[2].agent_id
    /\ response.results[1].success
    /\ ~response.results[3].success

\* C2: a failure of one invocation (client construction, the remote call, or
\* normalization) stops neither the other invocations nor the call: every
\* position is attempted, the aggregate is returned, and result k reports
\* success exactly when invocation k itself returned.
C2_FailureIsolation ==
    (Answered /\ Entered /\ N > 0) =>
        /\ status = HTTP_OK
        /\ response.present
        /\ Len(invocations) = N
        /\ Len(response.results) = N
        /\ \A k \in 1..N :
              /\ invocations[k].pos = k
              /\ invocations[k].fate \in {"returned", "raised"}
              /\ response.results[k].success <=> invocations[k].fate = "returned"

\* three agents, only the second fails: success = true, false, true
C2_Witness ==
    /\ Answered /\ Entered /\ N = 3 /\ status = HTTP_OK
    /\ invocations[1].fate = "returned"
    /\ invocations[2].fate = "raised"
    /\ invocations[3].fate = "returned"
    /\ response.results[1].success
    /\ ~response.results[2].success
    /\ response.results[3].success

\* C3: when query_agents is entered with an empty agents list the answer is 400,
\* and no client was built, no invoke_agent call was made, _invoke_bedrock_agent
\* was never entered, and no aggregate, not even an empty one, was produced.
C3_EmptyRejected ==
    (Entered /\ N = 0 /\ pc # "handler") =>
        /\ Answered
        /\ status = status_code
        /\ clients = <<>>
        /\ calls = <<>>
        /\ invocations = <<>>
        /\ results = <<>>
        /\ ~response.present

C3_Witness ==
    /\ Answered /\ Entered /\ N = 0 /\ Len(rawReq.agents) = 0
    /\ status = status_code

\* C4: in every result exactly one of output and error is there, by success:
\* a success carries error null and the normalized mapping of the response its
\* own call returned, a failure carries output null and an error string.  If
\* every remote call succeeds every result is a success with error null.
C4_OutputXorError ==
    /\ \A k \in 1..Len(results) :
          /\ results[k].success =>
                /\ results[k].error = PyNone
                /\ results[k].output.t = "dict"
                /\ results[k].output = NormalizeResponse(invocations[k].resp)
          /\ ~results[k].success =>
                /\ results[k].output = PyNone
                /\ results[k].error.t = "str"
    /\ response.present =>
          /\ response.results = results
          /\ (\A k \in 1..Len(invocations) : invocations[k].fate = "returned")
                => \A k \in 1..Len(results) :
                      results[k].success /\ results[k].error = PyNone

\* an aggregate with a success and a failure in it
C4_Witness ==
    /\ response.present
    /\ \E k \in 1..Len(response.results) :
          /\ response.results[k].success
          /\ "text" \in DOMAIN response.results[k].output.d
    /\ \E k \in 1..Len(response.results) : ~response.results[k].success

\* C5: if every remote call fails, every result is a failure with output null
\* and a non-empty error string, and echoes its agent, whatever was raised.
C5_AllFailNonEmptyError ==
    (response.present
     /\ \A k \in 1..Len(invocations) : invocations[k].fate = "raised") =>
        \A k \in 1..Len(response.results) :
            /\ ~response.results[k].success
            /\ response.results[k].output = PyNone
            /\ response.results[k].error.t = "str"
            /\ response.results[k].error.s # ""
            /\ Echoes(response.results[k], payload.agents[k])

\* C8: a request with an empty or whitespace-only descriptor field or query is
\* answered 400, with no remote invocation attempted and no results produced.
C8_BlankRejected400 ==
    (Answered /\ HasBlankField(rawReq)) =>
        /\ status = status_code
        /\ clients = <<>>
        /\ calls = <<>>
        /\ invocations = <<>>
        /\ ~response.present

\* the state of the invocation of position k
InvocationState(res, k) ==
    IF k > Len(res) THEN "Pending"
    ELSE IF res[k].success THEN "Succeeded" ELSE "Failed"

C9_Inv ==
    /\ \A k \in 1..Len(invocations) : invocations[k].pos = k
    /\ Len(results) <= Len(invocations)
    /\ Len(invocations) <= Len(results) + 1
    /\ Len(invocations) <= N
    /\ pc \in {"invoke", "normalize"} <=> Len(invocations) = Len(results) + 1
    /\ \A k \in 1..Len(invocations) :
          invocations[k].fate = "pending" <=> InvocationState(results, k) = "Pending"
    /\ response.present =>
          /\ Len(invocations) = N
          /\ response.results = results
          /\ \A k \in 1..N : InvocationState(results, k) # "Pending"

C9_Step ==
    pc' # "idle" =>
        /\ Len(results') \in {Len(results), Len(results) + 1}
        /\ Len(invocations') \in {Len(invocations), Len(invocations) + 1}
        /\ \A k \in 1..Len(results) : results'[k] = results[k]
        /\ \A k \in 1..Len(invocations) :
              invocations[k].fate # "pending" => invocations'[k] = invocations[k]

\* C9: _invoke_bedrock_agent is entered once per position, in input order, each
\* position goes from Pending to Succeeded or Failed once and then stays, and the
\* aggregate is returned only when no position is Pending.
C9_OncePerDescriptor == []C9_Inv /\ [][C9_Step]_vars

\* an aggregate of three whose second invocation failed and was not repeated
C9_Witness ==
    /\ response.present /\ N = 3
    /\ InvocationState(results, 2) = "Failed"
    /\ InvocationState(results, 3) = "Succeeded"
    /\ Len(invocations) = 3

\* C10: every invoke_agent call carries a session id that no other call carries,
\* in this request or an earlier one, together with the agent_id and alias_id of
\* its own descriptor and the request's query, on a client of that descriptor's
\* region.
C10_FreshSession ==
    /\ \A k \in 1..Len(calls) :
          /\ calls[k].sessionId \notin usedSessionIds
          /\ \A j \in 1..Len(calls) : calls[j].sessionId = calls[k].sessionId => j = k
          /\ calls[k].pos \in 1..N
          /\ calls[k].agentId = payload.agents[calls[k].pos].agent_id
          /\ calls[k].agentAliasId = payload.agents[calls[k].pos].alias_id
          /\ calls[k].region = payload.agents[calls[k].pos].region
          /\ calls[k].inputText = payload.query
    /\ \A k \in 1..Len(invocations) :
          Cardinality({j \in 1..Len(calls) : calls[j].pos = k}) <= 1

\* a second request with two calls for one and the same descriptor, after a
\* first request that sent calls too
C10_Witness ==
    /\ nreq = 2
    /\ usedSessionIds # {}
    /\ Len(calls) >= 2
    /\ \E j, k \in 1..Len(calls) :
          /\ j # k
          /\ payload.agents[calls[j].pos] = payload.agents[calls[k].pos]

-----------------------------------------------------------------------------
(* Properties of the normalizer alone *)

Normalized == normalized.t = "dict"

OnlyCompletionHello ==
    PyDict([k \in {"completion"} |-> PyDict([x \in {"text"} |-> PyStr("hello")])])

\* C6: on every raw response mapping the normalizer ends without raising, each
\* recognized key is in the output exactly when it is in the raw response, with
\* its value, no other key is there but possibly text; {} gives {}, a lone
\* completion {text: hello} gives that completion and text = hello, and a
\* completion that is no mapping gives no text.
C6_OnlyRecognized ==
    /\ ~NormalizerRaises(raw)
    /\ Normalized =>
          /\ \A k \in RecognizedKeys :
                /\ k \in DOMAIN normalized.d <=> k \in DOMAIN raw.d
                /\ k \in DOMAIN raw.d => normalized.d[k] = raw.d[k]
          /\ DOMAIN normalized.d \subseteq (RecognizedKeys \cap DOMAIN raw.d) \cup {"text"}
          /\ DOMAIN raw.d = {} => DOMAIN normalized.d = {}
          /\ raw = OnlyCompletionHello =>
                /\ DOMAIN normalized.d = {"completion", "text"}
                /\ normalized.d["text"] = PyStr("hello")
          /\ ("completion" \in DOMAIN raw.d /\ ~IsDict(raw.d["completion"]))
                => "text" \notin DOMAIN normalized.d
          /\ "completion" \notin DOMAIN raw.d => "text" \notin DOMAIN normalized.d

\* a raw response with unrecognized keys, one of them named text, and a
\* completion that carries a text
C6_Witness ==
    /\ Normalized
    /\ {"trace", "text", "sessionId", "completion"} \subseteq DOMAIN raw.d
    /\ "invocationId" \notin DOMAIN raw.d
    /\ IsDict(raw.d["completion"])
    /\ "text" \in DOMAIN normalized.d
    /\ normalized.d["text"] = PyStr("hi")

\* the completion mapping holds a string under the alias
HasText(completion, alias) ==
    /\ alias \in DOMAIN completion.d
    /\ completion.d[alias].t = "str"

\* C7: when the completion is a mapping with a string under text or content, the
\* output has the key text, holding one of those strings, whatever the string is,
\* the empty one included.
C7_TextAlwaysCopied ==
    (/\ Normalized
     /\ "completion" \in DOMAIN raw.d
     /\ IsDict(raw.d["completion"])
     /\ HasText(raw.d["completion"], "text") \/ HasText(raw.d["completion"], "content")) =>
        /\ "text" \in DOMAIN normalized.d
        /\ \E alias \in {"text", "content"} :
              /\ HasText(raw.d["completion"], alias)
              /\ normalized.d["text"] = raw.d["completion"].d[alias]

====
